---- MODULE Spec2Model ----
(***************************************************************************)
(* Zenith Point: the progression engine of src/game.js, in its two         *)
(* variants (v1: direct flux/target ratio, lines 11-225; v2: receding      *)
(* distance, lines 484-764).                                               *)
(*                                                                         *)
(* JavaScript numbers are modelled as signed decimal fixed-point values    *)
(* with 8 fractional digits.  A value is a record [neg, mag]; mag is the   *)
(* magnitude times 10^8 written in base 10^4, least significant limb       *)
(* first, without leading zero limbs (zero is <<>>).  Every limb and every *)
(* intermediate product stays below 2^31.  Products are truncated toward   *)
(* zero at the 8th fractional digit.  The results of Math.pow (costs,      *)
(* targets, requirements) are the doubles the code computes, each written  *)
(* as its nearest 8-digit decimal with the side the double lies on, so     *)
(* that this.flux >= cost and this.flux >= req are decided as on doubles.  *)
(***************************************************************************)
EXTENDS Integers, Sequences, FiniteSets, TLC

(***************************** magnitudes **********************************)

Max(x, y) == IF x >= y THEN x ELSE y

Limb(a, i) == IF i <= Len(a) THEN a[i] ELSE 0

RECURSIVE Trim(_)
Trim(a) ==
    IF a = <<>> THEN a
    ELSE IF a[Len(a)] = 0 THEN Trim(SubSeq(a, 1, Len(a) - 1)) ELSE a

RECURSIVE MagAddFrom(_, _, _, _)
MagAddFrom(a, b, i, c) ==
    IF i > Max(Len(a), Len(b))
    THEN IF c = 0 THEN <<>> ELSE <<c>>
    ELSE LET s == Limb(a, i) + Limb(b, i) + c
         IN  <<s % 10000>> \o MagAddFrom(a, b, i + 1, s \div 10000)

MagAdd(a, b) == MagAddFrom(a, b, 1, 0)

\* a - b for a >= b
RECURSIVE MagSubFrom(_, _, _, _)
MagSubFrom(a, b, i, c) ==
    IF i > Len(a) THEN <<>>
    ELSE LET d == a[i] - Limb(b, i) - c
         IN  IF d < 0 THEN <<d + 10000>> \o MagSubFrom(a, b, i + 1, 1)
                      ELSE <<d>> \o MagSubFrom(a, b, i + 1, 0)

MagSub(a, b) == Trim(MagSubFrom(a, b, 1, 0))

\* -1, 0, 1 as a < b, a = b, a > b
RECURSIVE MagCmpFrom(_, _, _)
MagCmpFrom(a, b, i) ==
    IF i = 0 THEN 0
    ELSE IF a[i] < b[i] THEN -1
    ELSE IF a[i] > b[i] THEN 1
    ELSE MagCmpFrom(a, b, i - 1)

MagCmp(a, b) ==
    IF Len(a) < Len(b) THEN -1
    ELSE IF Len(a) > Len(b) THEN 1
    ELSE MagCmpFrom(a, b, Len(a))

\* a * k for 0 <= k <= 200000
RECURSIVE MagMulSmallFrom(_, _, _, _)
MagMulSmallFrom(a, k, i, c) ==
    IF i > Len(a)
    THEN IF c = 0 THEN <<>>
         ELSE <<c % 10000>> \o MagMulSmallFrom(a, k, i, c \div 10000)
    ELSE LET p == a[i] * k + c
         IN  <<p % 10000>> \o MagMulSmallFrom(a, k, i + 1, p \div 10000)

MagMulSmall(a, k) == Trim(MagMulSmallFrom(a, k, 1, 0))

\* floor(a / k) for 1 <= k <= 200000
RECURSIVE MagDivSmallFrom(_, _, _, _)
MagDivSmallFrom(a, k, i, r) ==
    IF i = 0 THEN <<>>
    ELSE LET n == r * 10000 + a[i]
         IN  MagDivSmallFrom(a, k, i - 1, n % k) \o <<n \div k>>

MagDivSmall(a, k) == Trim(MagDivSmallFrom(a, k, Len(a), 0))

\* a * 10000^n (n >= 0), floor(a / 10000^(-n)) (n < 0)
MagShift(a, n) ==
    IF a = <<>> THEN a
    ELSE IF n >= 0 THEN [i \in 1..n |-> 0] \o a
    ELSE IF -n >= Len(a) THEN <<>>
    ELSE SubSeq(a, 1 - n, Len(a))

\* the sum over the limbs a[i..] of b * a[i] * 10000^(i - 1)
RECURSIVE MagMulFrom(_, _, _)
MagMulFrom(a, b, i) ==
    IF i > Len(a) THEN <<>>
    ELSE IF a[i] = 0 THEN MagMulFrom(a, b, i + 1)
    ELSE MagAdd(MagShift(MagMulSmall(b, a[i]), i - 1), MagMulFrom(a, b, i + 1))

MagMul(a, b) == IF Len(a) <= Len(b) THEN MagMulFrom(a, b, 1) ELSE MagMulFrom(b, a, 1)

\* a * 10^d (d >= 0), floor(a / 10^(-d)) (d < 0)
MagDecShift(a, d) ==
    IF d >= 0
    THEN MagShift(MagMulSmall(a, 10 ^ (d % 4)), d \div 4)
    ELSE MagDivSmall(MagShift(a, -((-d) \div 4)), 10 ^ ((-d) % 4))

RECURSIVE NatLimbs(_)
NatLimbs(n) == IF n = 0 THEN <<>> ELSE <<n % 10000>> \o NatLimbs(n \div 10000)

(*************************** signed numbers ********************************)

Mk(neg, mag) == [neg |-> neg /\ mag # <<>>, mag |-> mag]

Zero == Mk(FALSE, <<>>)

(* Infinity, the value a double overflows to (a rate of base * 2 ** count   *)
(* past count 1023, and the flux and totalFlux it is added to).  It is held *)
(* by flux and totalFlux only, and met by +, by the comparisons and by      *)
(* JSON.stringify; the other operand of + is finite or Infinity.            *)
Infinity == [neg |-> FALSE, mag |-> <<-1>>]

\* the integer n
NumInt(n) == IF n >= 0 THEN Mk(FALSE, MagShift(NatLimbs(n), 2))
                       ELSE Mk(TRUE, MagShift(NatLimbs(-n), 2))

\* n / 100, for the two-decimal literals of the source (1.15, 0.5, 2.5, ...)
NumHundredths(n) == Mk(FALSE, MagDecShift(NatLimbs(n), 6))

Neg(x) == Mk(~x.neg, x.mag)

Add(x, y) ==
    IF x = Infinity \/ y = Infinity THEN Infinity
    ELSE IF x.neg = y.neg THEN Mk(x.neg, MagAdd(x.mag, y.mag))
    ELSE IF MagCmp(x.mag, y.mag) >= 0 THEN Mk(x.neg, MagSub(x.mag, y.mag))
    ELSE Mk(y.neg, MagSub(y.mag, x.mag))

Sub(x, y) == Add(x, Neg(y))

Mul(x, y) == Mk(x.neg # y.neg, MagShift(MagMul(x.mag, y.mag), -2))

\* x * k for an integer |k| <= 200000 (exact)
MulInt(x, k) ==
    IF k >= 0 THEN Mk(x.neg, MagMulSmall(x.mag, k))
              ELSE Mk(~x.neg, MagMulSmall(x.mag, -k))

\* x / k for an integer 1 <= k <= 200000
DivInt(x, k) == Mk(x.neg, MagDivSmall(x.mag, k))

Cmp(x, y) ==
    IF x = Infinity THEN (IF y = Infinity THEN 0 ELSE 1)
    ELSE IF y = Infinity THEN -1
    ELSE IF x.neg /\ ~y.neg THEN -1
    ELSE IF ~x.neg /\ y.neg THEN 1
    ELSE IF x.neg THEN MagCmp(y.mag, x.mag)
    ELSE MagCmp(x.mag, y.mag)

Lt(x, y) == Cmp(x, y) < 0
Leq(x, y) == Cmp(x, y) <= 0
Geq(x, y) == Cmp(x, y) >= 0
Gt(x, y) == Cmp(x, y) > 0

NumMin(x, y) == IF Leq(x, y) THEN x ELSE y
NumMax(x, y) == IF Geq(x, y) THEN x ELSE y

(* x ** n for an integer n >= 0, by repeated squaring; exact as long as the *)
(* power has no more than 8 fractional digits                               *)
RECURSIVE Pow(_, _)
Pow(x, n) ==
    IF n = 0 THEN NumInt(1)
    ELSE LET h == Pow(x, n \div 2)
         IN  IF n % 2 = 0 THEN Mul(h, h) ELSE Mul(Mul(h, h), x)


\* x * y without the final truncation: both sides of a comparison of two
\* such products carry the same factor 10^16
RawMul(x, y) == Mk(x.neg # y.neg, MagMul(x.mag, y.mag))

\* the literal m e<e>: m * 10^e
Sci(m, e) == Mk(FALSE, MagDecShift(NatLimbs(m), e + 8))

(* A double the code computes with Math.pow, written as the 8-digit decimal *)
(* nearest to it; over tells that the double lies above that decimal (by    *)
(* less than half a unit of the 8th digit).                                 *)
Dbl(mag, over) == [val |-> Mk(FALSE, mag), over |-> over]

\* x >= d for a number x and a double d
GeqDbl(x, d) == Gt(x, d.val) \/ (x = d.val /\ ~d.over)

(* Math.pow(10, e) for the exponents e that getZenithTarget and             *)
(* getRebootRequirement compute at coherence 1..6, and getRebootRequirement *)
(* of v1 at the coherence -1 and 0 of an engine loaded from a corrupt       *)
(* snapshot (10^5 and 10^7.5), keyed by the exponent in tenths.  The exponent is itself a double (15 + 1.2 * 3 is                *)
(* 18.6000000000000014), and the power is the double Math.pow returns for   *)
(* it when the code runs: 6309573444801.943359375 at 12.8,                  *)
(* 3981071705534969 at 15.6, 3981071705534985728 at 18.6,                   *)
(* 63095734448019431424 at 19.8, 1584893192461111001088 at 21.2.            *)
Pow10Doubles ==
    (50 :> Dbl(<<0, 0, 0, 10>>, FALSE))
    @@ (75 :> Dbl(<<8379, 6016, 2776, 3162>>, TRUE))
    @@ (100 :> Dbl(<<0, 0, 0, 0, 100>>, FALSE))
    @@ (125 :> Dbl(<<9453, 3793, 168, 7766, 1622, 3>>, TRUE))
    @@ (128 :> Dbl(<<5938, 9433, 4801, 7344, 3095, 6>>, FALSE))
    @@ (150 :> Dbl(<<0, 0, 0, 0, 0, 1000>>, FALSE))
    @@ (156 :> Dbl(<<0, 0, 4969, 553, 717, 3981>>, FALSE))
    @@ (162 :> Dbl(<<0, 0, 1108, 2461, 9319, 5848, 1>>, FALSE))
    @@ (165 :> Dbl(<<0, 0, 3792, 168, 7766, 1622, 3>>, FALSE))
    @@ (174 :> Dbl(<<0, 0, 7184, 5095, 6431, 1188, 25>>, FALSE))
    @@ (175 :> Dbl(<<0, 0, 7952, 1683, 7660, 6227, 31>>, FALSE))
    @@ (180 :> Dbl(<<0, 0, 0, 0, 0, 0, 100>>, FALSE))
    @@ (184 :> Dbl(<<0, 0, 2096, 957, 4315, 1886, 251>>, FALSE))
    @@ (186 :> Dbl(<<0, 0, 5728, 3498, 7055, 1071, 398>>, FALSE))
    @@ (195 :> Dbl(<<0, 0, 1872, 8379, 6016, 2776, 3162>>, FALSE))
    @@ (198 :> Dbl(<<0, 0, 1424, 1943, 4480, 5734, 6309>>, FALSE))
    @@ (200 :> Dbl(<<0, 0, 0, 0, 0, 0, 0, 1>>, FALSE))
    @@ (210 :> Dbl(<<0, 0, 0, 0, 0, 0, 0, 10>>, FALSE))
    @@ (212 :> Dbl(<<0, 0, 1088, 1100, 4611, 3192, 8489, 15>>, FALSE))
    @@ (225 :> Dbl(<<0, 0, 2448, 9223, 6837, 6601, 2277, 316>>, FALSE))
    @@ (240 :> Dbl(<<0, 0, 2784, 8322, 9999, 9999, 9999, 9999>>, FALSE))

(* Math.pow(c, 1.5) for the integer coherence levels 1..8, truncated at the *)
(* 8th fractional digit.                                                    *)
PowThreeHalves(c) ==
    Mk(FALSE, << <<0, 0, 1>>, <<2712, 8284, 2>>, <<5242, 1961, 5>>, <<0, 0, 8>>,
                 <<3988, 1803, 11>>, <<3845, 6969, 14>>, <<5917, 5202, 18>>,
                 <<1699, 6274, 22>> >>[c])

(***************************** the bounds **********************************)

\* the count up to which an upgrade is bought
MaxCount == 2
\* collect clicks that reach a listener
MaxClicks == 15
\* frames run after the engine's first initialisation
MaxTicks == 2
\* the coherence level up to which a reboot is performed
MaxCoherence == 3
\* clicks on the start control (v2)
MaxStarts == 2

(****************************** the engine *********************************)

Variants == {"v1", "v2"}

Ids == <<"u1", "u2", "u3", "u4">>

IdSet == {Ids[i] : i \in 1..Len(Ids)}

(* The upgrade definitions: baseCost as written; costMult and power in      *)
(* hundredths (115 is 1.15); type "mult" or "none" (the field is absent).   *)
UpgradeDefs(v) ==
    IF v = "v1"
    THEN [u1 |-> [baseCost |-> 10,    costMult |-> 115, power |-> 50,   type |-> "none"],
          u2 |-> [baseCost |-> 100,   costMult |-> 120, power |-> 500,  type |-> "none"],
          u3 |-> [baseCost |-> 1000,  costMult |-> 125, power |-> 5000, type |-> "none"],
          u4 |-> [baseCost |-> 10000, costMult |-> 150, power |-> 200,  type |-> "mult"]]
    ELSE [u1 |-> [baseCost |-> 15,    costMult |-> 115, power |-> 100,  type |-> "none"],
          u2 |-> [baseCost |-> 150,   costMult |-> 120, power |-> 1000, type |-> "none"],
          u3 |-> [baseCost |-> 2000,  costMult |-> 160, power |-> 400,  type |-> "mult"],
          u4 |-> [baseCost |-> 50000, costMult |-> 220, power |-> 250,  type |-> "mult"]]

\* (mutant) a constructor that starts coherence at 0
ConstructedAtZero(v) ==
    [variant      |-> v,
     flux         |-> Zero,
     totalFlux    |-> Zero,
     coherence    |-> 0,
     rebootCount  |-> 0,
     upgrades     |-> [id \in IdSet |-> 0],
     lastTick     |-> Zero,
     velocity     |-> Zero,
     distance     |-> IF v = "v2" THEN Sci(1, 15) ELSE Zero,
     baseDistance |-> IF v = "v2" THEN Sci(1, 15) ELSE Zero,
     initialized  |-> FALSE]

\* new GameEngine(): the fields the constructor sets (velocity, distance and
\* baseDistance exist in v2 only and stay at their initial value in v1)
Constructed(v) ==
    [variant      |-> v,
     flux         |-> Zero,
     totalFlux    |-> Zero,
     coherence    |-> 1,
     rebootCount  |-> 0,
     upgrades     |-> [id \in IdSet |-> 0],
     lastTick     |-> Zero,
     velocity     |-> Zero,
     distance     |-> IF v = "v2" THEN Sci(1, 15) ELSE Zero,
     baseDistance |-> IF v = "v2" THEN Sci(1, 15) ELSE Zero,
     initialized  |-> FALSE]

addFlux(g, amount) ==
    [g EXCEPT !.flux = Add(g.flux, amount), !.totalFlux = Add(g.totalFlux, amount)]

(* getRate's forEach, upgrade i onwards, over the counts cnt: base sums     *)
(* count * power over the upgrades without a type, mult multiplies          *)
(* power ** count over the others.  A count below zero (a stored count that *)
(* loadGame assigned) gives the power of the reciprocal: 0.5, 0.25 and 0.4  *)
(* for the powers 2, 4 and 2.5.                                             *)
RECURSIVE RateBase(_, _, _)
RateBase(v, cnt, i) ==
    IF i > Len(Ids) THEN Zero
    ELSE LET u == UpgradeDefs(v)[Ids[i]]
         IN  IF u.type = "none"
             THEN Add(MulInt(NumHundredths(u.power), cnt[Ids[i]]),
                      RateBase(v, cnt, i + 1))
             ELSE RateBase(v, cnt, i + 1)

RECURSIVE RateMult(_, _, _)
RateMult(v, cnt, i) ==
    IF i > Len(Ids) THEN NumInt(1)
    ELSE LET u == UpgradeDefs(v)[Ids[i]]
         IN  IF u.type = "none"
             THEN RateMult(v, cnt, i + 1)
             ELSE Mul(IF cnt[Ids[i]] >= 0
                      THEN Pow(NumHundredths(u.power), cnt[Ids[i]])
                      ELSE Pow(NumHundredths(10000 \div u.power), -cnt[Ids[i]]),
                      RateMult(v, cnt, i + 1))

\* base * mult, for the counts the bounds allow (indexed count by count)
RateTable ==
    [v \in Variants |-> [a \in 0..MaxCount |-> [b \in 0..MaxCount |->
        [c \in 0..MaxCount |-> [d \in 0..MaxCount |->
            LET cnt == [u1 |-> a, u2 |-> b, u3 |-> c, u4 |-> d]
            IN  Mul(RateBase(v, cnt, 1), RateMult(v, cnt, 1))]]]]]

\* base * mult for any counts: read off the table where it has them
RateAt(v, cnt) ==
    IF \A id \in IdSet : cnt[id] \in 0..MaxCount
    THEN RateTable[v][cnt.u1][cnt.u2][cnt.u3][cnt.u4]
    ELSE Mul(RateBase(v, cnt, 1), RateMult(v, cnt, 1))

\* (mutant) base * mult, without the coherence factor
getRateNoCoherence(g) == RateAt(g.variant, g.upgrades)

\* base * mult * this.coherence
getRate(g) == MulInt(RateAt(g.variant, g.upgrades), g.coherence)

\* (mutant) the two variants' growth of the exponent taken from each other
TargetExponentSwapped(v, c) == 150 + (IF v = "v1" THEN 15 ELSE 12) * (c - 1)

\* the exponents, in tenths: 15 + 1.2 (c - 1) in v1, 15 + 1.5 (c - 1) in v2
TargetExponent(v, c) == 150 + (IF v = "v1" THEN 12 ELSE 15) * (c - 1)

\* 10 + 2.5 (c - 1) in v1, 10 + 2.8 (c - 1) in v2
RebootExponent(v, c) == 100 + (IF v = "v1" THEN 25 ELSE 28) * (c - 1)

\* Math.pow(10, exponent) at coherence c
Target(v, c) == Pow10Doubles[TargetExponent(v, c)].val

RequirementDbl(v, c) == Pow10Doubles[RebootExponent(v, c)]

Requirement(v, c) == RequirementDbl(v, c).val

\* the same, for the coherence levels the bounds allow
TargetTable ==
    [v \in Variants |-> [c \in 1..MaxCoherence + 1 |-> Target(v, c)]]

RequirementTable ==
    [v \in Variants |-> [c \in 1..MaxCoherence + 1 |-> Requirement(v, c)]]

getZenithTarget(g) ==
    IF g.coherence \in 1..MaxCoherence + 1
    THEN TargetTable[g.variant][g.coherence]
    ELSE Target(g.variant, g.coherence)

getRebootRequirement(g) ==
    IF g.coherence \in 1..MaxCoherence + 1
    THEN RequirementTable[g.variant][g.coherence]
    ELSE Requirement(g.variant, g.coherence)

\* this.flux >= req, req the double getRebootRequirement() returns
meetsRequirement(g) ==
    GeqDbl(g.flux, [val  |-> getRebootRequirement(g),
                    over |-> RequirementDbl(g.variant, g.coherence).over])

(* u.baseCost * Math.pow(u.costMult, u.count) at the counts 0..5 (entry     *)
(* n + 1 for count n), as the doubles the code computes: 2.2 is not a       *)
(* binary fraction, and 50000 * Math.pow(2.2, 1) is 110000.00000000001.     *)
CostDoubles ==
    [v1 |-> [u1 |-> << Dbl(<<0, 0, 10>>, FALSE),
                      Dbl(<<0, 5000, 11>>, FALSE),
                      Dbl(<<0, 2250, 13>>, FALSE),
                      Dbl(<<5000, 2087, 15>>, FALSE),
                      Dbl(<<6250, 4900, 17>>, FALSE),
                      Dbl(<<7187, 1135, 20>>, TRUE) >>,
           u2 |-> << Dbl(<<0, 0, 100>>, FALSE),
                      Dbl(<<0, 0, 120>>, FALSE),
                      Dbl(<<0, 0, 144>>, FALSE),
                      Dbl(<<0, 8000, 172>>, FALSE),
                      Dbl(<<0, 3600, 207>>, FALSE),
                      Dbl(<<0, 8320, 248>>, FALSE) >>,
           u3 |-> << Dbl(<<0, 0, 1000>>, FALSE),
                      Dbl(<<0, 0, 1250>>, FALSE),
                      Dbl(<<0, 5000, 1562>>, FALSE),
                      Dbl(<<0, 1250, 1953>>, FALSE),
                      Dbl(<<5000, 4062, 2441>>, FALSE),
                      Dbl(<<1250, 7578, 3051>>, FALSE) >>,
           u4 |-> << Dbl(<<0, 0, 0, 1>>, FALSE),
                      Dbl(<<0, 0, 5000, 1>>, FALSE),
                      Dbl(<<0, 0, 2500, 2>>, FALSE),
                      Dbl(<<0, 0, 3750, 3>>, FALSE),
                      Dbl(<<0, 0, 625, 5>>, FALSE),
                      Dbl(<<0, 5000, 5937, 7>>, FALSE) >>],
     v2 |-> [u1 |-> << Dbl(<<0, 0, 15>>, FALSE),
                      Dbl(<<0, 2500, 17>>, FALSE),
                      Dbl(<<0, 8375, 19>>, FALSE),
                      Dbl(<<2500, 8131, 22>>, FALSE),
                      Dbl(<<9375, 2350, 26>>, FALSE),
                      Dbl(<<5781, 1703, 30>>, TRUE) >>,
           u2 |-> << Dbl(<<0, 0, 150>>, FALSE),
                      Dbl(<<0, 0, 180>>, FALSE),
                      Dbl(<<0, 0, 216>>, FALSE),
                      Dbl(<<0, 2000, 259>>, FALSE),
                      Dbl(<<0, 400, 311>>, FALSE),
                      Dbl(<<0, 2480, 373>>, FALSE) >>,
           u3 |-> << Dbl(<<0, 0, 2000>>, FALSE),
                      Dbl(<<0, 0, 3200>>, FALSE),
                      Dbl(<<0, 0, 5120>>, TRUE),
                      Dbl(<<0, 0, 8192>>, TRUE),
                      Dbl(<<0, 2000, 3107, 1>>, TRUE),
                      Dbl(<<0, 5200, 971, 2>>, TRUE) >>,
           u4 |-> << Dbl(<<0, 0, 0, 5>>, FALSE),
                      Dbl(<<0, 0, 0, 11>>, TRUE),
                      Dbl(<<0, 0, 2000, 24>>, TRUE),
                      Dbl(<<0, 0, 2400, 53>>, TRUE),
                      Dbl(<<0, 0, 1280, 117>>, TRUE),
                      Dbl(<<0, 0, 6816, 257>>, TRUE) >>]]

CostDbl(v, id, n) == CostDoubles[v][id][n + 1]

\* getCost(u) for the upgrade id at the count n
CostAt(v, id, n) == CostDbl(v, id, n).val

\* (mutant) a cost that grows by the same step with every purchase
getCostLinear(g, id) ==
    MulInt(Add(NumInt(1),
               MulInt(Sub(NumHundredths(UpgradeDefs(g.variant)[id].costMult), NumInt(1)),
                      g.upgrades[id])),
           UpgradeDefs(g.variant)[id].baseCost)

\* (mutant) the cost taken at the count the purchase leaves
getCostAfterIncrement(g, id) == CostAt(g.variant, id, g.upgrades[id] + 1)

getCost(g, id) == CostAt(g.variant, id, g.upgrades[id])

\* this.flux >= cost, cost the double getCost(u) returns
affords(g, id) ==
    GeqDbl(g.flux, [val  |-> getCost(g, id),
                    over |-> CostDbl(g.variant, id, g.upgrades[id]).over])


\* (mutant) buyUpgrade without its affordability check
buyUpgradeUnchecked(g, id) ==
    [g EXCEPT !.flux = Sub(g.flux, getCost(g, id)), !.upgrades[id] = @ + 1]

\* (mutant) buyUpgrade that also zeroes the counts of the other upgrades
buyUpgradeClearsOthers(g, id) ==
    LET cost == getCost(g, id)
    IN  IF affords(g, id)
        THEN [g EXCEPT !.flux = Sub(g.flux, cost),
                       !.upgrades = [o \in IdSet |->
                                        IF o = id THEN g.upgrades[o] + 1 ELSE 0]]
        ELSE g

\* buyUpgrade(id): the state it leaves
buyUpgrade(g, id) ==
    LET cost == getCost(g, id)
    IN  IF affords(g, id)
        THEN [g EXCEPT !.flux = Sub(g.flux, cost), !.upgrades[id] = @ + 1]
        ELSE g

\* whether buyUpgrade(id) takes its if-branch
buyUpgradeDone(g, id) == affords(g, id)

\* what buyUpgrade hands back to its caller: it has no return statement
buyUpgradeReturn(g, id) == "undefined"

\* (mutant) executeReboot without its requirement check
executeRebootUnchecked(g) ==
    LET h == [g EXCEPT !.coherence = @ + 1,
                       !.flux = Zero,
                       !.upgrades = [id \in IdSet |-> 0],
                       !.rebootCount = @ + 1]
    IN  IF g.variant = "v2"
        THEN [h EXCEPT !.baseDistance = getZenithTarget(h),
                       !.distance = getZenithTarget(h)]
        ELSE h

\* (mutant) executeReboot leaving flux as it is
executeRebootKeepsFlux(g) ==
    IF meetsRequirement(g)
    THEN LET h == [g EXCEPT !.coherence = @ + 1,
                            !.upgrades = [id \in IdSet |-> 0],
                            !.rebootCount = @ + 1]
         IN  IF g.variant = "v2"
             THEN [h EXCEPT !.baseDistance = getZenithTarget(h),
                            !.distance = getZenithTarget(h)]
             ELSE h
    ELSE g

\* (mutant) executeReboot demanding more than the requirement
executeRebootStrict(g) ==
    IF Gt(g.flux, getRebootRequirement(g)) THEN executeRebootUnchecked(g) ELSE g

\* (mutant) executeReboot that does not count the reboot
executeRebootUncounted(g) ==
    IF meetsRequirement(g)
    THEN LET h == [g EXCEPT !.coherence = @ + 1,
                            !.flux = Zero,
                            !.upgrades = [id \in IdSet |-> 0]]
         IN  IF g.variant = "v2"
             THEN [h EXCEPT !.baseDistance = getZenithTarget(h),
                            !.distance = getZenithTarget(h)]
             ELSE h
    ELSE g

\* executeReboot(): the state it leaves
executeReboot(g) ==
    IF meetsRequirement(g)
    THEN LET h == [g EXCEPT !.coherence = @ + 1,
                            !.flux = Zero,
                            !.upgrades = [id \in IdSet |-> 0],
                            !.rebootCount = @ + 1]
         IN  IF g.variant = "v2"
             THEN [h EXCEPT !.baseDistance = getZenithTarget(h),
                            !.distance = getZenithTarget(h)]
             ELSE h
    ELSE g

executeRebootDone(g) == meetsRequirement(g)

\* what executeReboot hands back to its caller: it has no return statement
executeRebootReturn(g) == "undefined"

\* the collect-btn listener: 1 * coherence in v1, 1 * coherence^1.5 in v2
CollectGain(g) ==
    IF g.variant = "v1" THEN NumInt(g.coherence) ELSE PowThreeHalves(g.coherence)

collect(g) == addFlux(g, CollectGain(g))

\* delta = (now - this.lastTick) / 1000, now and lastTick in milliseconds
Delta(g, now) == DivInt(Sub(now, g.lastTick), 1000)

\* x * this.epsilon, epsilon = 1e-9
TimesEpsilon(x) == Mk(x.neg, MagDecShift(x.mag, -9))

\* the soft limit of animate, 1e5
DistanceFloor == Sci(1, 5)

\* v1: one run of the setInterval callback of startLoop at clock reading now
startLoopTick(g, now) ==
    addFlux([g EXCEPT !.lastTick = now], Mul(getRate(g), Delta(g, now)))

\* (mutant) animate without its soft limit
animateUnfloored(g, now) ==
    LET delta    == DivInt(Sub(now, g.lastTick), 1000)
        rate     == getRate(g)
        h        == addFlux([g EXCEPT !.lastTick = now], Mul(rate, delta))
        velocity == MulInt(rate, 10)
    IN  [h EXCEPT !.velocity = velocity,
                  !.distance = Sub(g.distance,
                                   Mk(delta.neg, MagDecShift(Mul(velocity, delta).mag, -9)))]

(* v2: one run of animate at clock reading now.  closingSpeed * delta is    *)
(* velocity * epsilon * delta; the factor 1e-9 is applied last, so that the *)
(* product is truncated once.                                               *)
animate(g, now) ==
    LET delta    == Delta(g, now)
        rate     == getRate(g)
        h        == addFlux([g EXCEPT !.lastTick = now], Mul(rate, delta))
        velocity == MulInt(rate, 10)
        d        == Sub(g.distance, TimesEpsilon(Mul(velocity, delta)))
    IN  [h EXCEPT !.velocity = velocity,
                  !.distance = IF Lt(d, DistanceFloor) THEN DistanceFloor ELSE d]

tick(g, now) == IF g.variant = "v1" THEN startLoopTick(g, now) ELSE animate(g, now)

(* The percentage of updateUI.  A quotient is kept exact, as the pair of    *)
(* its numerator and its (positive) denominator.                            *)
Ratio(n, d) == [num |-> n, den |-> d]

RatLeq(a, b) == Leq(RawMul(a.num, b.den), RawMul(b.num, a.den))
RatLt(a, b) == Lt(RawMul(a.num, b.den), RawMul(b.num, a.den))

\* v1: (flux / target) * 100; v2: Math.max(0, (1 - distance / target) * 100)
Progress(g) ==
    LET target == getZenithTarget(g)
    IN  IF g.variant = "v1"
        THEN Ratio(MulInt(g.flux, 100), target)
        ELSE Ratio(NumMax(Zero, MulInt(Sub(target, g.distance), 100)), target)

\* the clamp: 99.999999 in v1, 99.9999999 in v2
ProgressCap(v) ==
    Ratio(Mk(FALSE, IF v = "v1" THEN <<9900, 9999, 99>> ELSE <<9990, 9999, 99>>),
          NumInt(1))

\* Math.min(progress, cap)
clampedProgress(g) ==
    IF RatLeq(Progress(g), ProgressCap(g.variant))
    THEN Progress(g) ELSE ProgressCap(g.variant)


(* The readings of Date.now() the callbacks may see, in milliseconds since  *)
(* the engine was constructed: one timer period, and two far readings that  *)
(* stand for long absences and let the bounded upgrade counts reach the     *)
(* thresholds.  Date.now() is wall-clock time: a reading may lie before the *)
(* previous one.                                                            *)
Clock == {Sci(50, 0), Sci(2, 13), Sci(4, 15)}

(**************************** persistence (v1) *****************************)

(* A JSON value read off a parsed snapshot: a finite number, null, or       *)
(* undefined for a field the object does not have.  The numbers of          *)
(* coherence and rebootCount are integers: the engine holds these fields as *)
(* integers, and stored numbers with a fraction are not drawn.  A number is *)
(* in v, an integer in n.                                                   *)
JNum(x) == [t |-> "num", v |-> x, n |-> 0]
JInt(n) == [t |-> "int", v |-> Zero, n |-> n]
JNull == [t |-> "null", v |-> Zero, n |-> 0]
JMissing == [t |-> "missing", v |-> Zero, n |-> 0]

(* the upgrades field: an array of {id, count}, or no array.  Every entry   *)
(* holds an id and an integer count, as the entries saveGame writes do; an  *)
(* entry without a number as its count is not among the stored items.       *)
JList(entries) == [t |-> "list", v |-> entries]
JNoList(t) == [t |-> t, v |-> <<>>]

\* the data object saveGame builds
saveData(g) ==
    [flux        |-> JNum(g.flux),
     totalFlux   |-> JNum(g.totalFlux),
     coherence   |-> JInt(g.coherence),
     rebootCount |-> JInt(g.rebootCount),
     upgrades    |-> JList([i \in 1..Len(Ids) |->
                        [id |-> Ids[i], count |-> g.upgrades[Ids[i]]]])]

\* the item 'zenith_save' of localStorage: absent, or the text of an object
NoData ==
    [flux |-> JMissing, totalFlux |-> JMissing, coherence |-> JMissing,
     rebootCount |-> JMissing, upgrades |-> JNoList("missing")]
NoItem == [kind |-> "none", data |-> NoData]
Item(data) == [kind |-> "json", data |-> data]

\* JSON.stringify of a number: Infinity is written as null
stringifyNumber(j) == IF j.t = "num" /\ j.v = Infinity THEN JNull ELSE j

(* JSON.stringify writes every finite number as the decimal that reads back *)
(* as the same number and a number that is not finite as null; JSON.parse   *)
(* reads the text back: the item holds the object's fields as JSON values.  *)
stringify(data) ==
    Item([data EXCEPT !.flux = stringifyNumber(@),
                      !.totalFlux = stringifyNumber(@)])
parse(item) == item.data

\* saveGame(): the item it leaves in localStorage
saveGame(g) == stringify(saveData(g))

\* value || fallback: undefined, null and 0 are falsy
OrDefault(j, fallback) ==
    IF j.t = "num" /\ j.v # Zero THEN j.v ELSE fallback

\* (mutant) value || 0 whatever the field
OrDefaultIntZero(j, fallback) ==
    IF j.t = "int" /\ j.n # 0 THEN j.n ELSE 0

\* the same for the fields held as integers
OrDefaultInt(j, fallback) ==
    IF j.t = "int" /\ j.n # 0 THEN j.n ELSE fallback

\* data.upgrades.forEach(su => ...), entry i onwards
RECURSIVE loadUpgrades(_, _, _)
loadUpgrades(g, entries, i) ==
    IF i > Len(entries) THEN g
    ELSE LET su == entries[i]
         IN  loadUpgrades(IF su.id \in IdSet
                          THEN [g EXCEPT !.upgrades[su.id] = su.count]
                          ELSE g,
                          entries, i + 1)

(* loadGame() on the engine g with the item in localStorage: the engine it  *)
(* leaves, and whether it threw (forEach of a value that is no array)       *)
loadGame(g, item) ==
    IF item.kind = "none" THEN [engine |-> g, threw |-> FALSE]
    ELSE LET data == parse(item)
             h == [g EXCEPT !.flux = OrDefault(data.flux, Zero),
                            !.totalFlux = OrDefault(data.totalFlux, Zero),
                            !.coherence = OrDefaultInt(data.coherence, 1),
                            !.rebootCount = OrDefaultInt(data.rebootCount, 0)]
         IN  IF data.upgrades.t = "list"
             THEN [engine |-> loadUpgrades(h, data.upgrades.v, 1), threw |-> FALSE]
             ELSE [engine |-> h, threw |-> TRUE]

(****************************** the state **********************************)

VARIABLES
    game,          \* the GameEngine instance
    pendingBoots,  \* v2: setTimeout callbacks of setupBoot not yet run
    inits,         \* runs of setupDOM: listeners registered on collect-btn and reboot-btn
    loops,         \* runs of startLoop (v1) or of init's animate (v2): timers started
    clicks,        \* collect clicks served so far
    ticks,         \* frames run since the first initialisation
    last,          \* the last event: [op, id, ok, ret]
    idle,          \* a reboot succeeded and no Tick or Collect ran since
    prevReq,       \* the requirement the last successful reboot met
    storage        \* the item 'zenith_save' of localStorage

vars == <<game, pendingBoots, inits, loops, clicks, ticks, last, idle, prevReq, storage>>

Event(op, id, ok, ret) == [op |-> op, id |-> id, ok |-> ok, ret |-> ret]

Init ==
    /\ \E v \in Variants :
          /\ game = IF v = "v1" THEN loadGame(Constructed(v), NoItem).engine
                               ELSE Constructed(v)
          /\ inits = IF v = "v1" THEN 1 ELSE 0
          /\ loops = IF v = "v1" THEN 1 ELSE 0
    /\ storage = NoItem
    /\ pendingBoots = 0
    /\ clicks = 0
    /\ ticks = 0
    /\ last = Event("new", "-", TRUE, "undefined")
    /\ idle = FALSE
    /\ prevReq = Zero

\* the timer callback: setInterval of startLoop (v1), a frame of animate (v2)
Tick ==
    /\ loops >= 1
    /\ ticks < MaxTicks
    /\ \E now \in Clock : game' = tick(game, now)
    /\ ticks' = ticks + 1
    /\ last' = Event("tick", "-", TRUE, "undefined")
    /\ idle' = FALSE
    /\ UNCHANGED <<pendingBoots, inits, loops, clicks, prevReq, storage>>

\* a click served by each of the n listeners registered: setupDOM runs once
\* per init, and a v2 init runs once per start click
RECURSIVE collectClick(_, _)
collectClick(g, n) == IF n = 0 THEN g ELSE collectClick(collect(g), n - 1)

RECURSIVE rebootClick(_, _)
rebootClick(g, n) == IF n = 0 THEN g ELSE rebootClick(executeReboot(g), n - 1)

\* a click on collect-btn: every registered listener runs
Collect ==
    /\ inits = 0 \/ clicks < MaxClicks
    /\ game' = collectClick(game, inits)
    /\ clicks' = IF inits = 0 THEN clicks ELSE clicks + 1
    /\ last' = Event("collect", "-", inits >= 1, "undefined")
    /\ idle' = (idle /\ inits = 0)
    /\ UNCHANGED <<pendingBoots, inits, loops, ticks, prevReq, storage>>

\* a click on the buy button of upgrade id: the button is rendered by
\* renderUpgrades, and its handler reads the binding game (v1: made once the
\* constructor returned, after startLoop)
PurchaseUpgrade(id) ==
    /\ inits >= 1
    /\ loops >= 1
    /\ game.upgrades[id] < MaxCount \/ ~buyUpgradeDone(game, id)
    /\ game' = buyUpgrade(game, id)
    /\ last' = Event("buy", id, buyUpgradeDone(game, id), buyUpgradeReturn(game, id))
    /\ UNCHANGED <<pendingBoots, inits, loops, clicks, ticks, idle, prevReq, storage>>

\* a click on reboot-btn: every registered listener runs executeReboot
Reset ==
    /\ inits >= 1
    /\ game.coherence < MaxCoherence \/ ~executeRebootDone(game)
    /\ game' = rebootClick(game, inits)
    /\ last' = Event("reboot", "-", executeRebootDone(game), executeRebootReturn(game))
    /\ idle' = (idle \/ executeRebootDone(game))
    /\ prevReq' = IF executeRebootDone(game) THEN getRebootRequirement(game) ELSE prevReq
    /\ UNCHANGED <<pendingBoots, inits, loops, clicks, ticks, storage>>

\* v2: a click on start-btn while the boot overlay is shown
StartClick ==
    /\ game.variant = "v2"
    /\ inits = 0
    /\ pendingBoots < MaxStarts
    /\ pendingBoots' = pendingBoots + 1
    /\ last' = Event("start", "-", TRUE, "undefined")
    /\ UNCHANGED <<game, inits, loops, clicks, ticks, idle, prevReq, storage>>

\* v2: the setTimeout callback of setupBoot: initialized = true; init(),
\* which registers the listeners and runs the first frame of animate
BootTimeout ==
    /\ pendingBoots >= 1
    /\ inits = 0 \/ ticks < MaxTicks
    /\ \E now \in Clock : game' = animate([game EXCEPT !.initialized = TRUE], now)
    /\ pendingBoots' = pendingBoots - 1
    /\ inits' = inits + 1
    /\ loops' = loops + 1
    /\ ticks' = IF inits = 0 THEN ticks ELSE ticks + 1
    /\ last' = Event("boot", "-", TRUE, "undefined")
    /\ idle' = FALSE
    /\ UNCHANGED <<clicks, prevReq, storage>>

Next ==
    \/ Tick
    \/ Collect
    \/ \E id \in IdSet : PurchaseUpgrade(id)
    \/ Reset
    \/ StartClick
    \/ BootTimeout

Spec == Init /\ [][Next]_vars


(*********************** drawn engines and snapshots ***********************)

(* Engine states and stored items drawn from small sets, from which one     *)
(* frame, reboot clicks, saveGame and page loads are run.  The engines are  *)
(* states play leads to after more clicks and purchases than the bounds of  *)
(* Spec allow: a multiplier owned with no additive upgrade, a flux with a   *)
(* fraction, a flux below zero, a distance just above or at the floor, a    *)
(* totalFlux that overflowed.                                               *)
DrawnCounts ==
    {[u1 |-> 0, u2 |-> 0, u3 |-> 0, u4 |-> 0],
     [u1 |-> 0, u2 |-> 0, u3 |-> 0, u4 |-> 1],
     [u1 |-> 0, u2 |-> 0, u3 |-> 1, u4 |-> 2],
     [u1 |-> 2, u2 |-> 1, u3 |-> 0, u4 |-> 1],
     [u1 |-> 1, u2 |-> 2, u3 |-> 2, u4 |-> 0]}

\* 0, 12.5, -0.5, 3e8
DrawnFlux == {Zero, Mk(FALSE, <<0, 5000, 12>>), Mk(TRUE, <<0, 5000>>), Sci(3, 8)}

\* v2: the distance a reboot leaves, and 100000.5
DrawnDistance(v, c) ==
    IF v = "v1" THEN {Zero} ELSE {Target(v, c), Mk(FALSE, <<0, 5000, 0, 10>>)}

DrawnPlayed ==
    {[Constructed(v) EXCEPT !.flux = f,
                            !.totalFlux = Add(f, NumInt(40)),
                            !.coherence = c,
                            !.rebootCount = c - 1,
                            !.upgrades = cnt,
                            !.distance = d,
                            !.baseDistance = IF v = "v1" THEN Zero ELSE Target(v, c),
                            !.initialized = (v = "v2")] :
        <<v, f, c, cnt, d>> \in
            {t \in Variants \X DrawnFlux \X (1..2) \X DrawnCounts
                   \X UNION {DrawnDistance(v, c) : v \in Variants, c \in 1..2} :
                t[5] \in DrawnDistance(t[1], t[3])}}

(* v1 engines whose totalFlux overflowed before their reboot: past 1023     *)
(* purchases of u4 the rate is 0.5 * 2 ** count = Infinity, a frame adds it *)
(* to flux and totalFlux, and executeReboot resets flux and the counts but  *)
(* leaves totalFlux.                                                        *)
DrawnOverflowed ==
    {[g EXCEPT !.totalFlux = Infinity] :
        g \in {h \in DrawnPlayed : h.variant = "v1" /\ h.coherence = 2}}

(* a v2 engine with u1 bought once and u3 forty times (rate 4^40 a second), *)
(* 25 seconds of flux accrued, its distance at the floor, and a last frame  *)
(* stamped 10 seconds after the first clock reading                         *)
DrawnAtFloor ==
    LET g == [Constructed("v2") EXCEPT
                  !.flux = Sci(3, 25),
                  !.totalFlux = Sci(4, 25),
                  !.upgrades = [u1 |-> 1, u2 |-> 0, u3 |-> 40, u4 |-> 0],
                  !.lastTick = Sci(1005, 1),
                  !.distance = DistanceFloor,
                  !.initialized = TRUE]
    IN  [g EXCEPT !.velocity = MulInt(getRate(g), 10)]

DrawnEngines == DrawnPlayed \cup DrawnOverflowed \cup {DrawnAtFloor}

\* stored objects: every field present, absent or holding a corrupt value
DrawnData ==
    [flux        : {JMissing, JNull, JNum(Mk(FALSE, <<0, 5000, 12>>)), JNum(Mk(TRUE, <<0, 0, 3>>))},
     totalFlux   : {JMissing, JNum(NumInt(40))},
     coherence   : {JMissing, JInt(2), JInt(0), JInt(-1)},
     rebootCount : {JMissing, JInt(1)},
     upgrades    : {JNoList("missing"), JNoList("null"),
                    JList(<<>>),
                    JList(<<[id |-> "u2", count |-> 2]>>),
                    JList(<<[id |-> "u9", count |-> 5],
                            [id |-> "u1", count |-> 1],
                            [id |-> "u4", count |-> 2]>>),
                    JList(<<[id |-> "u1", count |-> -1]>>)}]

DrawnItems == {NoItem} \cup {Item(data) : data \in DrawnData}

(* either a drawn engine with nothing stored, or a stored item drawn and    *)
(* the v1 engine that the page load constructs from it still to come        *)
InitDrawn ==
    /\ \/ game \in DrawnEngines /\ storage = NoItem
       \/ game = Constructed("v1") /\ storage \in DrawnItems
    /\ inits = 1
    /\ loops = 1
    /\ pendingBoots = 0
    /\ clicks = 0
    /\ ticks = MaxTicks - 1
    /\ last = Event("new", "-", TRUE, "undefined")
    /\ idle = FALSE
    /\ prevReq = Zero

\* a call of game.saveGame(): the binding game exists once the constructor
\* returned, which it does after startLoop
SaveGame ==
    /\ game.variant = "v1"
    /\ loops >= 1
    /\ storage' = saveGame(game)
    /\ last' = Event("save", "-", TRUE, "undefined")
    /\ UNCHANGED <<game, pendingBoots, inits, loops, clicks, ticks, idle, prevReq>>

(* The page is loaded again: new GameEngine() runs init, and init runs      *)
(* setupDOM, loadGame and startLoop in this order.  The listeners are       *)
(* registered before loadGame runs.  When loadGame throws, the constructor  *)
(* does: no timer is started and no binding game is made.                   *)
PageLoad ==
    /\ game.variant = "v1"
    /\ LET r == loadGame(Constructed("v1"), storage)
       IN  /\ game' = r.engine
           /\ inits' = 1
           /\ loops' = IF r.threw THEN 0 ELSE 1
           /\ last' = Event("load", IF last.op = "save" THEN "saved" ELSE "-",
                            ~r.threw, IF r.threw THEN "throw" ELSE "undefined")
    /\ idle' = FALSE
    /\ UNCHANGED <<pendingBoots, clicks, ticks, prevReq, storage>>

NextDrawn ==
    \/ Tick
    \/ Reset
    \/ SaveGame
    \/ PageLoad

SpecDrawn == InitDrawn /\ [][NextDrawn]_vars

(******************************* claims ************************************)

Hundred == Ratio(NumInt(100), NumInt(1))

(* C1: in both variants the percentage shown is >= 0 and < 100 in every     *)
(* reachable state.                                                         *)
C1_PercentInRange ==
    /\ RatLeq(Ratio(Zero, NumInt(1)), clampedProgress(game))
    /\ RatLt(clampedProgress(game), Hundred)

(* C2: in the direct-ratio variant flux stays below getZenithTarget() in    *)
(* every reachable state.                                                   *)
C2_BelowTarget ==
    game.variant = "v1" => Lt(game.flux, Target("v1", game.coherence))

(* C3: flux >= 0 in every reachable state.                                  *)
C3_FluxNonNegative == Geq(game.flux, Zero)

(* C4: a purchase invoked with flux below the cost changes nothing of the   *)
(* engine: flux, totalFlux, the counts, coherence, rebootCount, distance.   *)
C4_DeclinedPurchaseNoOp ==
    [][\A id \in IdSet :
          (/\ last'.op = "buy"
           /\ last'.id = id
           /\ ~GeqDbl(game.flux, CostDbl(game.variant, id, game.upgrades[id])))
          => game' = game]_vars

C4_Witness ==
    /\ last.op = "buy"
    /\ Gt(game.flux, Zero)
    /\ Lt(game.flux, CostAt(game.variant, last.id, game.upgrades[last.id]))

(* C5: a purchase invoked with flux at or above the cost lowers flux by     *)
(* baseCost * costMult^count at the count before the purchase, raises that  *)
(* count by one, and leaves the other counts, coherence, rebootCount and    *)
(* totalFlux as they were.                                                  *)
C5_PurchaseEffect ==
    [][\A id \in IdSet :
          (/\ last'.op = "buy"
           /\ last'.id = id
           /\ GeqDbl(game.flux, CostDbl(game.variant, id, game.upgrades[id])))
          => /\ game'.flux = Sub(game.flux, CostAt(game.variant, id, game.upgrades[id]))
             /\ game'.upgrades[id] = game.upgrades[id] + 1
             /\ \A o \in IdSet \ {id} : game'.upgrades[o] = game.upgrades[o]
             /\ game'.coherence = game.coherence
             /\ game'.rebootCount = game.rebootCount
             /\ game'.totalFlux = game.totalFlux]_vars

\* a purchase paid with flux exactly at the cost
C5_Witness ==
    /\ last.op = "buy"
    /\ last.ok
    /\ game.flux = Zero
    /\ Gt(game.totalFlux, Zero)

(* C6: a reboot invoked with flux below the requirement changes nothing of  *)
(* the engine.                                                              *)
C6_DeclinedRebootNoOp ==
    [][(/\ last'.op = "reboot"
        /\ ~GeqDbl(game.flux, RequirementDbl(game.variant, game.coherence)))
       => game' = game]_vars

C6_Witness ==
    /\ last.op = "reboot"
    /\ Gt(game.flux, Zero)
    /\ Lt(game.flux, Requirement(game.variant, game.coherence))
    /\ game.coherence = 2

(* C7: a reboot invoked with flux at or above the requirement raises        *)
(* coherence and rebootCount by one, zeroes flux and every count, leaves    *)
(* totalFlux, and leaves the target and the requirement strictly larger.    *)
C7_RebootEffect ==
    [][(/\ last'.op = "reboot"
        /\ GeqDbl(game.flux, RequirementDbl(game.variant, game.coherence)))
       => /\ game'.coherence = game.coherence + 1
          /\ game'.flux = Zero
          /\ \A id \in IdSet : game'.upgrades[id] = 0
          /\ game'.rebootCount = game.rebootCount + 1
          /\ game'.totalFlux = game.totalFlux
          /\ Gt(getZenithTarget(game'), getZenithTarget(game))
          /\ Gt(getRebootRequirement(game'), getRebootRequirement(game))]_vars

(* a v1 reboot performed with flux exactly at the requirement: all that was *)
(* ever gained is the 10 flux spent on the first upgrade plus 1e10          *)
C7_Witness ==
    /\ last.op = "reboot"
    /\ last.ok
    /\ game.coherence = 2
    /\ game.totalFlux = Add(Requirement(game.variant, 1), NumInt(10))

(* C8: coherence >= 1 in every reachable state, no step lowers it, and the  *)
(* only step that changes it is a reboot whose requirement is met.          *)
C8_CoherenceMonotone ==
    /\ [](game.coherence >= 1)
    /\ [][/\ game'.coherence >= game.coherence
          /\ game'.coherence # game.coherence
             => (/\ last'.op = "reboot"
                 /\ GeqDbl(game.flux, RequirementDbl(game.variant, game.coherence)))]_vars

C8_Witness ==
    /\ game.coherence = 3
    /\ last.op \in {"tick", "collect", "buy"}

(* C9: a reboot invoked after a performed reboot with no Tick or Collect in *)
(* between is declined, and every performed reboot met a strictly larger    *)
(* requirement than the performed reboot before it.                         *)
C9_NoChainedReboots ==
    [][/\ (idle /\ last'.op = "reboot") => game' = game
       /\ (last'.op = "reboot" /\ game'.coherence # game.coherence)
          => Gt(Requirement(game.variant, game.coherence), prevReq)]_vars

\* after two performed reboots, a third click right away was declined
C9_Witness ==
    /\ game.rebootCount = 2
    /\ idle
    /\ last.op = "reboot"
    /\ ~last.ok
    /\ Gt(prevReq, Requirement(game.variant, 1))

(* C10: buyUpgrade and executeReboot hand back a status that                *)
(* tells a performed call from a declined one: two calls in a row of the    *)
(* same operation with different outcomes return different values.          *)
C10_StatusDistinguishes ==
    [][(/\ last.op \in {"buy", "reboot"}
        /\ last'.op = last.op
        /\ last'.ok # last.ok)
       => last'.ret # last.ret]_vars

(* C11: in v1, after every Tick, Collect, performed purchase and performed  *)
(* reboot the item in localStorage is the snapshot of the engine as the     *)
(* operation left it.                                                       *)
C11_WriteThrough ==
    [][(/\ game.variant = "v1"
        /\ \/ last'.op \in {"tick", "collect"}
           \/ last'.op \in {"buy", "reboot"} /\ last'.ok)
       => storage' = saveGame(game')]_vars

(* C12: in v1, saveGame followed by a page load (a freshly constructed      *)
(* engine running loadGame) completes and reproduces flux, totalFlux,       *)
(* coherence, rebootCount and every upgrade count.                          *)
C12_RoundTrip ==
    [][(last.op = "save" /\ last'.op = "load")
       => /\ last'.ret # "throw"
          /\ game'.flux = game.flux
          /\ game'.totalFlux = game.totalFlux
          /\ game'.coherence = game.coherence
          /\ game'.rebootCount = game.rebootCount
          /\ \A id \in IdSet : game'.upgrades[id] = game.upgrades[id]]_vars

\* the entries of a stored upgrades array (none when there is no array)
C13_Entries == storage.data.upgrades.v

\* the positions of the entries for id
C13_At(id) == {i \in 1..Len(C13_Entries) : C13_Entries[i].id = id}

(* C13: loading a stored object, each of flux, totalFlux, coherence,        *)
(* rebootCount that is missing takes 0, 0, 1, 0; an upgrade with entries    *)
(* takes the count of its (last) entry; an upgrade with no entry keeps 0;   *)
(* entries with unknown ids change nothing.                                 *)
C13_LoadDefaults ==
    [][(last'.op = "load" /\ storage.kind = "json")
       => /\ storage.data.flux.t = "missing" => game'.flux = Zero
          /\ storage.data.totalFlux.t = "missing" => game'.totalFlux = Zero
          /\ storage.data.coherence.t = "missing" => game'.coherence = 1
          /\ storage.data.rebootCount.t = "missing" => game'.rebootCount = 0
          /\ \A id \in IdSet :
                game'.upgrades[id] =
                    IF C13_At(id) = {} THEN 0
                    ELSE LET i == CHOOSE i \in C13_At(id) : \A k \in C13_At(id) : k <= i
                         IN  C13_Entries[i].count]_vars

\* a load of an object without flux and coherence, with an entry of an
\* unknown id before entries of u1 and u4
C13_Witness ==
    /\ last.op = "load"
    /\ storage.data.flux.t = "missing"
    /\ storage.data.coherence.t = "missing"
    /\ storage.data.totalFlux.t = "num"
    /\ Len(storage.data.upgrades.v) = 3
    /\ game.upgrades = [u1 |-> 1, u2 |-> 0, u3 |-> 0, u4 |-> 2]
    /\ game.coherence = 1
    /\ game.totalFlux = NumInt(40)

(* C14: loading a stored object with missing or corrupt fields completes,   *)
(* and leaves flux >= 0, coherence >= 1 and every count >= 0.               *)
C14_LoadRecovers ==
    last.op = "load"
    => /\ last.ret # "throw"
       /\ Geq(game.flux, Zero)
       /\ game.coherence >= 1
       /\ \A id \in IdSet : game.upgrades[id] >= 0

(* C15: a tick whose clock reading is earlier than lastTick leaves flux,    *)
(* totalFlux and (v2) distance unchanged.                                   *)
C15_TickClampsNegativeElapsed ==
    [][(last'.op = "tick" /\ Lt(game'.lastTick, game.lastTick))
       => /\ game'.flux = game.flux
          /\ game'.totalFlux = game.totalFlux
          /\ game'.distance = game.distance]_vars

(* C19: Tick and Collect add the same amount to flux and to totalFlux, a    *)
(* click on collect served by one listener adds coherence (v1) or           *)
(* coherence^1.5 (v2), purchases and reboots leave totalFlux, and no step   *)
(* lowers totalFlux.                                                        *)
C19_TotalAccrued ==
    [][/\ last'.op \in {"tick", "collect"}
          => Sub(game'.flux, game.flux) = Sub(game'.totalFlux, game.totalFlux)
       /\ (last'.op = "collect" /\ inits = 1)
          => game'.totalFlux =
                Add(game.totalFlux,
                    IF game.variant = "v1" THEN NumInt(game.coherence)
                                           ELSE PowThreeHalves(game.coherence))
       /\ last'.op \in {"buy", "reboot"} => game'.totalFlux = game.totalFlux
       /\ Geq(game'.totalFlux, game.totalFlux)]_vars

\* (sum of count * power over the additive upgrades) * (product of
\* power^count over the multiplicative ones) * coherence, written out
C16_Rate(g) ==
    LET n == g.upgrades
    IN  IF g.variant = "v1"
        THEN MulInt(MulInt(Add(Add(DivInt(NumInt(n.u1), 2), NumInt(5 * n.u2)),
                               NumInt(50 * n.u3)),
                           2 ^ n.u4),
                    g.coherence)
        ELSE MulInt(Mul(Mul(NumInt(n.u1 + 10 * n.u2), Pow(NumInt(4), n.u3)),
                        Pow(DivInt(NumInt(5), 2), n.u4)),
                    g.coherence)

\* no additive upgrade is owned: u1, u2, u3 in v1; u1, u2 in v2
C16_NoAdditive(g) ==
    /\ g.upgrades.u1 = 0
    /\ g.upgrades.u2 = 0
    /\ g.variant = "v1" => g.upgrades.u3 = 0

(* C16: getRate() is (sum of count * power over the additive upgrades) *    *)
(* (product of power^count over the multiplicative ones) * coherence, and   *)
(* a tick from a state with no additive upgrade owned leaves flux.          *)
C16_RateFormula ==
    /\ []((\A id \in IdSet : game.upgrades[id] >= 0) => getRate(game) = C16_Rate(game))
    /\ [][(last'.op = "tick" /\ C16_NoAdditive(game)) => game'.flux = game.flux]_vars

\* a tick, of a long elapsed time, from a state with multipliers owned and
\* no additive upgrade
C16_Witness ==
    /\ last.op = "tick"
    /\ C16_NoAdditive(game)
    /\ game.upgrades.u4 = 2
    /\ game.coherence = 2
    /\ game.flux = Sci(3, 8)
    /\ game.lastTick = Sci(4, 15)

(* C20: in v2 the distance is at least 1e5, and so never zero, in every     *)
(* reachable state.                                                         *)
C20_DistanceFloor ==
    game.variant = "v2" => Geq(game.distance, Sci(1, 5))

\* a frame that closed more than the distance left above the floor
C20_Witness ==
    /\ game.variant = "v2"
    /\ last.op = "tick"
    /\ Gt(game.velocity, Zero)
    /\ game.distance = Sci(1, 5)

(* C17: a performed purchase leaves the upgrade's cost at its cost before   *)
(* times its costMult, strictly higher; a performed reboot leaves every     *)
(* upgrade's cost at its baseCost.                                          *)
C17_CostGrowth ==
    [][/\ \A id \in IdSet :
             (/\ last'.op = "buy"
              /\ last'.id = id
              /\ game'.upgrades[id] = game.upgrades[id] + 1)
             => /\ getCost(game', id) =
                      Mul(getCost(game, id),
                          NumHundredths(UpgradeDefs(game.variant)[id].costMult))
                /\ Gt(getCost(game', id), getCost(game, id))
       /\ (last'.op = "reboot" /\ game'.coherence # game.coherence)
          => \A id \in IdSet :
                getCost(game', id) = NumInt(UpgradeDefs(game.variant)[id].baseCost)]_vars

\* a second purchase of an upgrade, after a reboot that followed purchases
C17_Witness ==
    /\ last.op = "buy"
    /\ last.ok
    /\ game.upgrades[last.id] = 2
    /\ game.coherence = 2

\* x and y agree to one part in 10^8, the precision numbers are kept at
C18_Close(x, y) == Leq(Mk(FALSE, MagDecShift(Sub(x, y).mag, 8)), y)

\* the growth of the target exponent per reboot, in tenths
C18_Growth(v) == IF v = "v1" THEN 12 ELSE 15

\* 10^1.2 = 15.84893192 and 10^1.5 = 31.62277660, to 8 decimals
C18_Factor(v) ==
    Mk(FALSE, IF v = "v1" THEN <<3192, 8489, 15>> ELSE <<7660, 6227, 31>>)

(* C18: at every coherence level c the target exponent at c + 1 is that at  *)
(* c plus 1.2 (v1) or 1.5 (v2), and the target at c + 1 is the target at c  *)
(* times 10^1.2 or 10^1.5.                                                  *)
C18_TargetRatio ==
    LET v == game.variant
        c == game.coherence
    IN  /\ TargetExponent(v, c + 1) = TargetExponent(v, c) + C18_Growth(v)
        /\ C18_Close(Mul(getZenithTarget(game), C18_Factor(v)),
                     getZenithTarget([game EXCEPT !.coherence = c + 1]))

\* the target after its second move
C18_Witness ==
    /\ game.coherence = 3
    /\ game.rebootCount = 2
    /\ last.op = "reboot"
    /\ last.ok

(* C21: in v2 a performed reboot leaves the distance at the target of the   *)
(* coherence it leaves, 10^(15 + 1.5 (coherence - 1)), strictly above the   *)
(* distance before it, and the percentage of updateUI at 0.                 *)
C21_ReAnchor ==
    [][(/\ game.variant = "v2"
        /\ last'.op = "reboot"
        /\ GeqDbl(game.flux, RequirementDbl("v2", game.coherence)))
       => /\ game'.distance = Pow10Doubles[150 + 15 * game.coherence].val
          /\ game'.distance = getZenithTarget(game')
          /\ Gt(game'.distance, game.distance)
          /\ Progress(game').num = Zero
          /\ clampedProgress(game').num = Zero]_vars

(* C22: every upgrade count is a non-negative integer in every reachable    *)
(* state; a frame (of the timer or of the boot) and a collect click leave   *)
(* every count, coherence and rebootCount; a purchase changes no count but  *)
(* the named one, which it raises by one when performed; and no operation   *)
(* other than a purchase or a reboot changes a count.                       *)
C22_CountFrame ==
    /\ [](\A id \in IdSet : game.upgrades[id] \in Nat)
    /\ [][/\ last'.op \in {"tick", "boot", "collect"}
             => /\ game'.upgrades = game.upgrades
                /\ game'.coherence = game.coherence
                /\ game'.rebootCount = game.rebootCount
          /\ \A id \in IdSet :
                (last'.op = "buy" /\ last'.id = id)
                => /\ \A o \in IdSet \ {id} : game'.upgrades[o] = game.upgrades[o]
                   /\ game'.upgrades[id] =
                         game.upgrades[id] + (IF last'.ok THEN 1 ELSE 0)
                   /\ game'.coherence = game.coherence
                   /\ game'.rebootCount = game.rebootCount
          /\ game'.upgrades # game.upgrades
             => last'.op \in {"buy", "reboot"}]_vars

\* a performed purchase of u2, after a reboot, with u1 owned
C22_Witness ==
    /\ last.op = "buy"
    /\ last.ok
    /\ last.id = "u2"
    /\ game.upgrades.u1 >= 1
    /\ game.upgrades.u2 = 1
    /\ game.rebootCount = 1

(* C23: in v2 the distance is at most getZenithTarget() in every reachable  *)
(* state; no step but a reboot raises it; a collect click and a purchase    *)
(* leave it; and it changes in no step other than a frame or a reboot.      *)
C23_DistanceBelowTarget ==
    /\ [](game.variant = "v2" => Leq(game.distance, getZenithTarget(game)))
    /\ [][game.variant = "v2"
          => /\ last'.op # "reboot" => Leq(game'.distance, game.distance)
             /\ last'.op \in {"collect", "buy"} => game'.distance = game.distance
             /\ game'.distance # game.distance
                => last'.op \in {"tick", "boot", "reboot"}]_vars

(* C24: in every state that Tick, Collect, PurchaseUpgrade and Reset reach  *)
(* from a constructed engine with nothing loaded, rebootCount is            *)
(* coherence - 1.                                                           *)
C24_CountsMoveTogether == game.rebootCount = game.coherence - 1

\* a click on a buy button after two performed reboots
C24_Witness ==
    /\ game.rebootCount = 2
    /\ game.coherence = 3
    /\ last.op = "buy"
    /\ storage = NoItem

(* C25: in v2, whatever the number of clicks on the start control, init     *)
(* runs past its guard at most once (one loop of animate, one collect       *)
(* listener), a collect click then adds coherence^1.5 once to flux and to   *)
(* totalFlux, and before init has run no frame and no collect click changes *)
(* the engine.                                                              *)
C25_InitialisedOnce ==
    /\ [](game.variant = "v2" => inits <= 1)
    /\ [][game.variant = "v2"
          => /\ (last'.op = "collect" /\ inits >= 1)
                => /\ game'.flux = Add(game.flux, PowThreeHalves(game.coherence))
                   /\ game'.totalFlux =
                         Add(game.totalFlux, PowThreeHalves(game.coherence))
             /\ (inits = 0 /\ last'.op \in {"tick", "collect"})
                => game' = game]_vars

====
